---- MODULE Spec2Model ----
(***************************************************************************)
(* Model of the Auth microservice (educoreai-lotus/Auth):                  *)
(*   - keyManager        : the in-memory key store                         *)
(*   - keyRotationService: rotateToNewKey / addKeyWithoutActivating /      *)
(*                         purgeExpiredKeys                                *)
(*   - jwksController    : the cached JWKS document                        *)
(*   - jwtService        : generateToken                                   *)
(*   - validateJWT       : the verification middleware                     *)
(*   - authController    : initiateOAuth / handleCallback                  *)
(* JavaScript runs every synchronous function to completion, so each       *)
(* exported function is one atomic action.                                 *)
(***************************************************************************)
EXTENDS Integers, Sequences, FiniteSets, TLC

VARIABLES
    keyStore,      \* keyManager.js: { activeKid, keys } ; keys in insertion order
    jwksCache,     \* jwksController.js: the cached JWKS document
    now,           \* the wall clock, in seconds
    held,          \* a token a client still holds (its access_token cookie)
    ret,           \* what the last key-store / token operation returned or threw
    config,        \* process.env: JWT_EXPIRY_MINUTES, and whether FRONTEND_URL is a URL
    oauthClients,  \* authController.js: providers whose OAuth client was initialised
    jar,           \* the browser's cookie jar for this service
    nonce,         \* how many state values generators.state() has produced
    resp           \* the last HTTP response of initiateOAuth / handleCallback

vars == <<keyStore, jwksCache, now, held, ret, config, oauthClients, jar, nonce, resp>>

keyVars == <<keyStore, jwksCache, now, held, ret>>
loginVars == <<oauthClients, jar, nonce, resp>>

(***************************************************************************)
(* Values                                                                  *)
(***************************************************************************)
\* undefined / null / "" : every falsy value the code tests with `!x` or `||`
Absent == "absent"

\* a non-empty string that is not a parseable PEM key
Bad == "bad"

\* RSA key pairs; the private half of pair m signs what the public half of m verifies
KeyMaterial == {"m1", "m2"}

\* `auth-key-${index}` for slots 1 and 2, and the month-stamped default of rotateToNewKey
KeyIds == {"auth-key-1", "auth-key-2", "auth-key-2025-01"}

\* the order String.prototype sort() gives these ids
KidRank(kid) ==
    CASE kid = "auth-key-1" -> 1
      [] kid = "auth-key-2" -> 2
      [] kid = "auth-key-2025-01" -> 3
      [] kid = "auth-key-3" -> 4

Truthy(v) == v # Absent

\* crypto.createPrivateKey / crypto.createPublicKey succeed on the value
Parses(v) == v \in KeyMaterial

(***************************************************************************)
(* keyManager.js                                                           *)
(***************************************************************************)
EmptyStore == [activeKid |-> Absent, keys |-> <<>>]

\* Object.keys(keyStore.keys)
getAllKidsOf(ks) == [i \in 1..Len(ks.keys) |-> ks.keys[i].kid]

KidSet(ks) == {ks.keys[i].kid : i \in 1..Len(ks.keys)}

\* keyStore.keys[kid] is set
HasKey(ks, kid) == kid \in KidSet(ks)

\* a name every object literal inherits a value for from Object.prototype
InheritedName == "constructor"

\* keyStore.keys[kid] is truthy: keys is the object literal {}, so the lookup also finds
\* what the object inherits
Defined(ks, kid) == HasKey(ks, kid) \/ kid = InheritedName

Entry(ks, kid) == ks.keys[CHOOSE i \in 1..Len(ks.keys) : ks.keys[i].kid = kid]

\* keyStore.keys[kid] = {...} : an overwrite keeps the property's position
PutKey(keys, kid, privateKey, publicKey) ==
    LET e == [kid |-> kid, privateKey |-> privateKey, publicKey |-> publicKey]
    IN  IF \E i \in 1..Len(keys) : keys[i].kid = kid
        THEN [i \in 1..Len(keys) |-> IF keys[i].kid = kid THEN e ELSE keys[i]]
        ELSE Append(keys, e)

\* delete keyStore.keys[kid]
DeleteKey(keys, kid) == SelectSeq(keys, LAMBDA e : e.kid # kid)

getActivePrivateKeyOf(ks) ==
    IF ~Truthy(ks.activeKid) \/ ~HasKey(ks, ks.activeKid)
    THEN Absent
    ELSE Entry(ks, ks.activeKid).privateKey

getActiveKidOf(ks) == ks.activeKid

getPublicKeyOf(ks, kid) ==
    IF ~Truthy(kid) \/ ~HasKey(ks, kid) THEN Absent ELSE Entry(ks, kid).publicKey

\* addKey: the store afterwards, or the store untouched with thrown = TRUE
\* an addKey that stores the pair before it looks at its arguments
addKeyThenCheck(ks, kid, privateKey, publicKey, setAsActive) ==
    [thrown |-> ~Truthy(kid) \/ ~Truthy(privateKey) \/ ~Truthy(publicKey),
     ks |-> [activeKid |-> IF setAsActive THEN kid ELSE ks.activeKid,
             keys |-> PutKey(ks.keys, kid, privateKey, publicKey)]]

addKey(ks, kid, privateKey, publicKey, setAsActive) ==
    IF ~Truthy(kid) \/ ~Truthy(privateKey) \/ ~Truthy(publicKey)
    THEN [thrown |-> TRUE, ks |-> ks]
    ELSE [thrown |-> FALSE,
          ks |-> [activeKid |-> IF setAsActive THEN kid ELSE ks.activeKid,
                  keys |-> PutKey(ks.keys, kid, privateKey, publicKey)]]

\* removeKey without its active-key guard
UnguardedRemoveKey(ks, kid) ==
    IF ~Truthy(kid) \/ ~HasKey(ks, kid)
    THEN ks
    ELSE [ks EXCEPT !.keys = DeleteKey(ks.keys, kid)]

removeKey(ks, kid) ==
    IF ~Truthy(kid) \/ ~Defined(ks, kid)
    THEN ks
    ELSE IF kid = ks.activeKid
         THEN ks
         ELSE [ks EXCEPT !.keys = DeleteKey(ks.keys, kid)]

\* a switch that leaves the active key id as it is
KeepActiveKid(ks, kid) == [thrown |-> FALSE, ks |-> ks]

setActiveKid(ks, kid) ==
    IF ~Defined(ks, kid)
    THEN [thrown |-> TRUE, ks |-> ks]
    ELSE [thrown |-> FALSE, ks |-> [ks EXCEPT !.activeKid = kid]]

getKeyStoreStateOf(ks) ==
    [activeKid |-> ks.activeKid,
     availableKids |-> getAllKidsOf(ks),
     keyCount |-> Len(ks.keys)]

\* loadKeyFromEnv(index): the slot's key pair, or Absent
FallbackKid(index) ==
    IF index = 1 THEN "auth-key-1" ELSE IF index = 2 THEN "auth-key-2" ELSE "auth-key-3"

SlotPresent(env, index) ==
    /\ index \in DOMAIN env.slots
    /\ Truthy(env.slots[index].privateKey)
    /\ Truthy(env.slots[index].publicKey)

loadKeyFromEnv(env, index) ==
    LET s == env.slots[index]
    IN  [kid |-> IF Truthy(s.kid) THEN s.kid ELSE FallbackKid(index),
         privateKey |-> s.privateKey,
         publicKey |-> s.publicKey]

\* a loop that passes over a missing slot and goes on to the configured ones after it
RECURSIVE LoadSlotsPastGaps(_, _, _)
LoadSlotsPastGaps(env, index, keys) ==
    IF index \notin DOMAIN env.slots
    THEN keys
    ELSE IF ~SlotPresent(env, index)
         THEN LoadSlotsPastGaps(env, index + 1, keys)
         ELSE LET kp == loadKeyFromEnv(env, index)
              IN  LoadSlotsPastGaps(env, index + 1,
                                    PutKey(keys, kp.kid, kp.privateKey, kp.publicKey))

\* the production loop of initialize: slots index, index+1, ... until one is missing
RECURSIVE LoadSlots(_, _, _)
LoadSlots(env, index, keys) ==
    IF ~SlotPresent(env, index)
    THEN keys
    ELSE LET kp == loadKeyFromEnv(env, index)
         IN  LoadSlots(env, index + 1, PutKey(keys, kp.kid, kp.privateKey, kp.publicKey))

\* Object.keys(keyStore.keys).sort().reverse()[0]
LastKid(keys) ==
    CHOOSE k \in {keys[i].kid : i \in 1..Len(keys)} :
        \A j \in 1..Len(keys) : KidRank(keys[j].kid) <= KidRank(k)

\* initialize(): keys is reset, activeKid is assigned only when a key can be chosen
initialize(ks, env) ==
    LET loaded ==
            IF env.NODE_ENV = "production"
            THEN LoadSlots(env, 1, <<>>)
            ELSE IF Truthy(env.file.privateKey) /\ Truthy(env.file.publicKey)
                 THEN PutKey(<<>>,
                             IF Truthy(env.JWT_KEY_ID) THEN env.JWT_KEY_ID ELSE "auth-key-1",
                             env.file.privateKey, env.file.publicKey)
                 ELSE <<>>
        hasActiveEnv ==
            /\ Truthy(env.JWT_ACTIVE_KID)
            /\ Defined([activeKid |-> Absent, keys |-> loaded], env.JWT_ACTIVE_KID)
    IN  [activeKid |-> IF hasActiveEnv THEN env.JWT_ACTIVE_KID
                       ELSE IF Len(loaded) > 0 THEN LastKid(loaded)
                       ELSE ks.activeKid,
         keys |-> loaded]

(***************************************************************************)
(* jwksController.js                                                       *)
(***************************************************************************)
\* generateJWKS: one JWK per key whose public key converts, in Object.keys order
RECURSIVE JwksOf(_)
JwksOf(keys) ==
    IF keys = <<>>
    THEN <<>>
    ELSE LET e == Head(keys)
         IN  IF ~Truthy(e.publicKey) \/ ~Parses(e.publicKey)
             THEN JwksOf(Tail(keys))
             ELSE <<[kty |-> "RSA", use |-> "sig", kid |-> e.kid,
                     alg |-> "RS256", n |-> e.publicKey]>> \o JwksOf(Tail(keys))

\* a generator that gives up on the whole document when one key fails to convert
generateJWKSOrNothing(ks) ==
    IF \E i \in 1..Len(ks.keys) :
          ~Truthy(ks.keys[i].publicKey) \/ ~Parses(ks.keys[i].publicKey)
    THEN <<>>
    ELSE JwksOf(ks.keys)

generateJWKS(ks) == JwksOf(ks.keys)

JwksKids(doc) == {doc[i].kid : i \in 1..Len(doc)}

(***************************************************************************)
(* keyRotationService.js                                                   *)
(***************************************************************************)
\* new Date().toISOString().slice(0, 7) does not change within the model's horizon
DefaultNewKid == "auth-key-2025-01"

\* rotateToNewKey with process.env.JWT_PRIVATE_KEY_NEW / JWT_PUBLIC_KEY_NEW / JWT_NEW_KID
rotateToNewKey(ks, cache, privNew, pubNew, kidNew) ==
    LET newKid == IF Truthy(kidNew) THEN kidNew ELSE DefaultNewKid
    IN  IF ~Truthy(privNew) \/ ~Truthy(pubNew)
        THEN [ks |-> ks, cache |-> cache,
              ret |-> [op |-> "rotate", success |-> FALSE, error |-> "must be set"]]
        ELSE IF ~Parses(privNew) \/ ~Parses(pubNew)
        THEN [ks |-> ks, cache |-> cache,
              ret |-> [op |-> "rotate", success |-> FALSE, error |-> "Invalid key format"]]
        ELSE LET oldActiveKid == getActiveKidOf(ks)
                 added == addKey(ks, newKid, privNew, pubNew, FALSE).ks
                 switched == setActiveKid(added, newKid).ks
             IN  [ks |-> switched,
                  cache |-> generateJWKS(switched),
                  ret |-> [op |-> "rotate", success |-> TRUE,
                           oldActiveKid |-> oldActiveKid,
                           newActiveKid |-> newKid,
                           totalKeys |-> getKeyStoreStateOf(switched).keyCount]]

addKeyWithoutActivating(ks, cache, kid, privateKey, publicKey) ==
    IF ~Parses(privateKey) \/ ~Parses(publicKey)
    THEN [ks |-> ks, cache |-> cache,
          ret |-> [op |-> "add", success |-> FALSE, error |-> "invalid key"]]
    ELSE LET r == addKey(ks, kid, privateKey, publicKey, FALSE)
         IN  IF r.thrown
             THEN [ks |-> r.ks, cache |-> cache,
                   ret |-> [op |-> "add", success |-> FALSE, error |-> "required"]]
             ELSE [ks |-> r.ks,
                   cache |-> generateJWKS(r.ks),
                   ret |-> [op |-> "add", success |-> TRUE, kid |-> kid,
                            activeKid |-> getActiveKidOf(r.ks)]]

\* for (const kid of list) keyManager.removeKey(kid)
RECURSIVE RemoveAll(_, _)
RemoveAll(ks, list) ==
    IF list = <<>> THEN ks ELSE RemoveAll(removeKey(ks, Head(list)), Tail(list))

\* a purge that, given no list, leaves every key alone unless minAgeMinutes is 0
purgeHonouringMinAge(ks, cache, hasList, kidsToPurge, minAgeMinutes) ==
    LET activeKid == getActiveKidOf(ks)
        keysToRemove ==
            IF hasList
            THEN SelectSeq(kidsToPurge, LAMBDA k : k # activeKid)
            ELSE IF minAgeMinutes > 0 THEN <<>>
            ELSE SelectSeq(getAllKidsOf(ks), LAMBDA k : k # activeKid)
        after == RemoveAll(ks, keysToRemove)
    IN  [ks |-> after,
         cache |-> generateJWKS(after),
         ret |-> [op |-> "purge", success |-> TRUE, purged |-> keysToRemove,
                  activeKid |-> activeKid, remainingKeys |-> getAllKidsOf(after)]]

\* a purge that removes the keys and leaves the cached document as it was
purgeWithoutRefresh(ks, cache, hasList, kidsToPurge, minAgeMinutes) ==
    LET activeKid == getActiveKidOf(ks)
        keysToRemove ==
            IF hasList
            THEN SelectSeq(kidsToPurge, LAMBDA k : k # activeKid)
            ELSE SelectSeq(getAllKidsOf(ks), LAMBDA k : k # activeKid)
        after == RemoveAll(ks, keysToRemove)
    IN  [ks |-> after,
         cache |-> cache,
         ret |-> [op |-> "purge", success |-> TRUE, purged |-> keysToRemove,
                  activeKid |-> activeKid, remainingKeys |-> getAllKidsOf(after)]]

\* purgeExpiredKeys(kidsToPurge, minAgeMinutes); hasList: kidsToPurge is an array
purgeExpiredKeys(ks, cache, hasList, kidsToPurge, minAgeMinutes) ==
    LET activeKid == getActiveKidOf(ks)
        allKids == getAllKidsOf(ks)
        keysToRemove ==
            IF hasList
            THEN SelectSeq(kidsToPurge, LAMBDA k : k # activeKid)
            ELSE SelectSeq(allKids, LAMBDA k : k # activeKid)
    IN  IF Len(keysToRemove) = 0
        THEN [ks |-> ks, cache |-> cache,
              ret |-> [op |-> "purge", success |-> TRUE, purged |-> <<>>,
                       message |-> "No keys to purge"]]
        ELSE LET after == RemoveAll(ks, keysToRemove)
             IN  [ks |-> after,
                  cache |-> generateJWKS(after),
                  ret |-> [op |-> "purge", success |-> TRUE,
                           purged |-> keysToRemove,
                           activeKid |-> activeKid,
                           remainingKeys |-> getAllKidsOf(after)]]

getRotationStatus(ks) == getKeyStoreStateOf(ks)

(***************************************************************************)
(* jwtService.js : generateToken                                           *)
(***************************************************************************)
\* process.env.JWT_ISSUER || 'auth-microservice', process.env.JWT_AUDIENCE || 'educore-ai'
JwtIssuer == "auth-microservice"
JwtAudience == "educore-ai"

\* parseInt(process.env.JWT_EXPIRY_MINUTES || '15', 10); the variable is <<>> when unset
\* and <<n>> when set to the decimal string of n
DefaultExpiryMinutes == 15
ExpiryMinutesOf(envValue) == IF envValue = <<>> THEN DefaultExpiryMinutes ELSE envValue[1]

\* jwt.sign(payload, privateKey, {algorithm: 'RS256', keyid}) : throws on a key that
\* does not parse, otherwise the signature is the one only the matching public half accepts
JwtSign(payload, privateKey, keyid) ==
    IF ~Parses(privateKey)
    THEN [ok |-> FALSE, error |-> "sign failed"]
    ELSE [ok |-> TRUE,
          token |-> [kid |-> keyid, alg |-> "RS256", payload |-> payload,
                     sig |-> privateKey]]

\* an issuer that hands out an unsigned token when it finds no key
generateTokenUnsigned(ks, claims, clock, expiryEnv) ==
    [ok |-> TRUE,
     token |-> [kid |-> getActiveKidOf(ks), alg |-> "none",
                payload |-> [sub |-> claims.sub, email |-> claims.email,
                             organization_id |-> claims.organization_id,
                             roles |-> claims.roles, iat |-> clock,
                             exp |-> clock + ExpiryMinutesOf(expiryEnv) * 60,
                             iss |-> JwtIssuer, aud |-> JwtAudience],
                sig |-> getActivePrivateKeyOf(ks)]]

\* an issuer that signs with the first key of the store under the active key's id
generateTokenFirstKey(ks, claims, clock, expiryEnv) ==
    IF ~Truthy(getActivePrivateKeyOf(ks)) \/ ~Truthy(getActiveKidOf(ks))
    THEN [ok |-> FALSE, error |-> "JWT private key not configured"]
    ELSE JwtSign([sub |-> claims.sub, email |-> claims.email,
                  organization_id |-> claims.organization_id, roles |-> claims.roles,
                  iat |-> clock, exp |-> clock + ExpiryMinutesOf(expiryEnv) * 60,
                  iss |-> JwtIssuer, aud |-> JwtAudience],
                 ks.keys[1].privateKey, getActiveKidOf(ks))

generateToken(ks, claims, clock, expiryEnv) ==
    LET privateKey == getActivePrivateKeyOf(ks)
        activeKid == getActiveKidOf(ks)
        expiryMinutes == ExpiryMinutesOf(expiryEnv)
    IN  IF ~Truthy(privateKey)
        THEN [ok |-> FALSE, error |-> "JWT private key not configured"]
        ELSE IF ~Truthy(activeKid)
        THEN [ok |-> FALSE, error |-> "JWT active key ID not configured"]
        ELSE JwtSign([sub |-> claims.sub,
                      email |-> claims.email,
                      organization_id |-> claims.organization_id,
                      roles |-> claims.roles,
                      iat |-> clock,
                      exp |-> clock + expiryMinutes * 60,
                      iss |-> JwtIssuer,
                      aud |-> JwtAudience],
                     privateKey, activeKid)

(***************************************************************************)
(* validateJWT.js                                                          *)
(***************************************************************************)
\* jwt.verify(token, key, {algorithms: ['RS256'], issuer, audience}) :
\* "ok", or the name of the error it throws
\* a verification that never looks at the expiry time
JwtVerifyIgnoringExpiry(token, key, clock) ==
    IF token.alg # "RS256" \/ ~Parses(key) \/ token.sig # key
    THEN "JsonWebTokenError"
    ELSE IF token.payload.aud # JwtAudience \/ token.payload.iss # JwtIssuer
    THEN "JsonWebTokenError"
    ELSE "ok"

JwtVerify(token, key, clock) ==
    IF token.alg # "RS256" \/ ~Parses(key) \/ token.sig # key
    THEN "JsonWebTokenError"
    ELSE IF clock >= token.payload.exp
    THEN "TokenExpiredError"
    ELSE IF token.payload.aud # JwtAudience \/ token.payload.iss # JwtIssuer
    THEN "JsonWebTokenError"
    ELSE "ok"

UserOf(token) ==
    [user_id |-> token.payload.sub,
     email |-> token.payload.email,
     organization_id |-> token.payload.organization_id,
     roles |-> token.payload.roles]

Unauthorized(errorName) ==
    [status |-> 401,
     error |-> IF errorName = "TokenExpiredError" THEN "Token expired"
               ELSE IF errorName = "JsonWebTokenError" THEN "Invalid token"
               ELSE "Authentication failed"]

\* the keys tried in turn when the kid lookup found nothing: the index of the first
\* key that verifies, or 0
FirstVerifying(token, keys, clock) ==
    IF \E i \in 1..Len(keys) : JwtVerify(token, keys[i].publicKey, clock) = "ok"
    THEN CHOOSE i \in 1..Len(keys) :
            /\ JwtVerify(token, keys[i].publicKey, clock) = "ok"
            /\ \A j \in 1..(i - 1) : JwtVerify(token, keys[j].publicKey, clock) # "ok"
    ELSE 0

\* a validation that, when no key verifies, reports the error of the first key tried
validateTokenFirstError(ks, token, clock) ==
    LET tokenKid == token.kid
        publicKey == IF Truthy(tokenKid) THEN getPublicKeyOf(ks, tokenKid) ELSE Absent
    IN  IF ~Truthy(publicKey)
        THEN IF Len(ks.keys) = 0
             THEN [status |-> 500, error |-> "Authentication service misconfigured"]
             ELSE IF FirstVerifying(token, ks.keys, clock) # 0
                  THEN [status |-> 200, user |-> UserOf(token)]
                  ELSE Unauthorized(JwtVerify(token, ks.keys[1].publicKey, clock))
        ELSE IF JwtVerify(token, publicKey, clock) = "ok"
             THEN [status |-> 200, user |-> UserOf(token)]
             ELSE Unauthorized(JwtVerify(token, publicKey, clock))

\* a validation that falls back on the other keys when the key the kid names fails
validateTokenWithFallback(ks, token, clock) ==
    IF Len(ks.keys) = 0
    THEN [status |-> 500, error |-> "Authentication service misconfigured"]
    ELSE IF FirstVerifying(token, ks.keys, clock) # 0
    THEN [status |-> 200, user |-> UserOf(token)]
    ELSE Unauthorized(JwtVerify(token, ks.keys[Len(ks.keys)].publicKey, clock))

\* validateJWT(req, res, next) from the point where req.cookies.access_token is `token`
validateToken(ks, token, clock) ==
    LET tokenKid == token.kid
        publicKey == IF Truthy(tokenKid) THEN getPublicKeyOf(ks, tokenKid) ELSE Absent
    IN  IF ~Truthy(publicKey)
        THEN IF Len(ks.keys) = 0
             THEN [status |-> 500, error |-> "Authentication service misconfigured"]
             ELSE IF FirstVerifying(token, ks.keys, clock) # 0
                  THEN [status |-> 200, user |-> UserOf(token)]
                  ELSE Unauthorized(JwtVerify(token, ks.keys[Len(ks.keys)].publicKey, clock))
        ELSE IF JwtVerify(token, publicKey, clock) = "ok"
             THEN [status |-> 200, user |-> UserOf(token)]
             ELSE Unauthorized(JwtVerify(token, publicKey, clock))

\* validateJWT(req, res, next); cookie is <<>> without an access_token cookie, else <<token>>
validateJWT(ks, cookie, clock) ==
    IF cookie = <<>>
    THEN [status |-> 401, error |-> "No authentication token provided"]
    ELSE validateToken(ks, cookie[1], clock)

Accepts(ks, token, clock) == validateJWT(ks, <<token>>, clock).status = 200

(***************************************************************************)
(* authController.js                                                       *)
(***************************************************************************)
Providers == {"google", "github", "linkedin"}

\* req.params.provider: the three providers and a name that is none of them
ProviderNames == Providers \cup {"other"}

\* a state value no initiateOAuth ever generated
ForgedState == 0 - 1

\* cookie and query values are numbers: 0 for "not there", n for the n-th value generated
Present(v) == v # 0

\* what the Coordinator does with the get-user request: code is the axios error code
\* ("none" when a response came back), status the HTTP status of the response (0 without
\* one), hasUser whether response.data.user_id is set
DirectoryAnswers ==
    {[code |-> "none", status |-> 200, hasUser |-> TRUE],
     [code |-> "none", status |-> 200, hasUser |-> FALSE],
     [code |-> "none", status |-> 400, hasUser |-> FALSE],
     [code |-> "none", status |-> 403, hasUser |-> FALSE],
     [code |-> "none", status |-> 404, hasUser |-> FALSE],
     [code |-> "none", status |-> 500, hasUser |-> FALSE],
     [code |-> "none", status |-> 503, hasUser |-> FALSE],
     [code |-> "ECONNREFUSED", status |-> 0, hasUser |-> FALSE],
     [code |-> "ECONNABORTED", status |-> 0, hasUser |-> FALSE],
     [code |-> "ENOTFOUND", status |-> 0, hasUser |-> FALSE]}

\* no get-user request was made
NoAnswer == [code |-> "unasked", status |-> 0, hasUser |-> FALSE]

NoResponse ==
    [handler |-> "none", provider |-> "none", status |-> 0, outcome |-> "none",
     reqCode |-> Absent, reqError |-> Absent,
     reqState |-> 0, storedState |-> 0, passedGate |-> FALSE,
     exchangeCalled |-> FALSE, userinfoCalled |-> FALSE, directoryCalled |-> FALSE,
     issueCalled |-> FALSE, setAccess |-> <<>>, accessMaxAge |-> 0,
     mock |-> FALSE, lookup |-> NoAnswer, reason |-> "",
     setState |-> 0, setVerifier |-> 0,
     clearedState |-> FALSE, clearedVerifier |-> FALSE,
     audit |-> "none", clearedAccess |-> FALSE, reqToken |-> "none"]

\* an initiation that takes any provider name for a supported one
initiateOAuthAnyProvider(provider, clients, n) ==
    LET base == [NoResponse EXCEPT !.handler = "initiate", !.provider = provider]
    IN  IF provider \notin clients
        THEN [base EXCEPT !.status = 500, !.outcome = "ProviderNotConfigured"]
        ELSE [base EXCEPT !.status = 302, !.outcome = "Redirect",
                          !.setState = n + 1, !.setVerifier = n + 1]

\* initiateOAuth(req, res): n is the number of values generators.state() gave so far
initiateOAuth(provider, clients, n) ==
    LET base == [NoResponse EXCEPT !.handler = "initiate", !.provider = provider]
    IN  IF provider \notin Providers
        THEN [base EXCEPT !.status = 400, !.outcome = "InvalidProvider"]
        ELSE IF provider \notin clients
        THEN [base EXCEPT !.status = 500, !.outcome = "ProviderNotConfigured"]
        ELSE [base EXCEPT !.status = 302, !.outcome = "Redirect",
                          !.setState = n + 1, !.setVerifier = n + 1]

\* the catch block of handleCallback
Thrown(r) ==
    [r EXCEPT !.status = 500, !.outcome = "Exception",
              !.clearedState = TRUE, !.clearedVerifier = TRUE]

ClearBoth(r) == [r EXCEPT !.clearedState = TRUE, !.clearedVerifier = TRUE]

DirectoryUser == [user_id |-> "u1", organization_id |-> "o1", roles |-> <<"user">>]
MockUser == [user_id |-> "dummy-user-123", organization_id |-> "dummy-org-1",
             roles |-> <<"user">>]

\* a lookup that answers every request with the dummy user
getUserByEmailDummy(mock, answer) == [thrown |-> FALSE, user |-> <<MockUser>>]

\* coordinatorService.getUserByEmail(email, provider): mock is COORDINATOR_MOCK_MODE ===
\* 'true'; the result is a thrown error, or user = <<>> for null, or user = <<u>>
getUserByEmail(mock, answer) ==
    IF mock
    THEN [thrown |-> FALSE, user |-> <<MockUser>>]
    ELSE IF answer.code = "none" /\ answer.status >= 200 /\ answer.status < 300
    THEN [thrown |-> FALSE, user |-> IF answer.hasUser THEN <<DirectoryUser>> ELSE <<>>]
    ELSE IF answer.code = "ECONNREFUSED" \/ answer.status >= 500
    THEN [thrown |-> FALSE, user |-> <<>>]
    ELSE IF answer.status = 404 \/ answer.status = 403
    THEN [thrown |-> FALSE, user |-> <<>>]
    ELSE [thrown |-> TRUE, user |-> <<>>]

\* maxAge of the access_token cookie, in milliseconds
AccessCookieMaxAge == 15 * 60 * 1000
ProviderEmail == "a@example.org"

\* what the audit store does with the insert of a login record: db is null
\* ("notConnected"), insertOne resolves ("inserted") or rejects ("insertError")
LoginAuditAnswers == {"inserted", "notConnected", "insertError"}

\* an audit write that passes a rejected insert on to its caller
logLoginOrThrow(answer) ==
    [thrown |-> answer = "insertError", written |-> answer = "inserted"]

\* auditService.logLogin(data)
logLogin(answer) ==
    IF answer = "notConnected"
    THEN [thrown |-> FALSE, written |-> FALSE]
    ELSE IF answer = "inserted"
    THEN [thrown |-> FALSE, written |-> TRUE]
    ELSE [thrown |-> FALSE, written |-> FALSE]

\* handleCallback from the directory lookup on (email obtained)
CallbackResolve(r, provider, ks, clock, cfg, ext) ==
    LET r1 == [r EXCEPT !.directoryCalled = TRUE, !.mock = ext.mock,
                        !.lookup = ext.directory]
        directoryResponse == getUserByEmail(ext.mock, ext.directory)
    IN  IF directoryResponse.thrown
        THEN Thrown(r1)
        ELSE IF directoryResponse.user = <<>>
        THEN ClearBoth([r1 EXCEPT !.status = 302, !.outcome = "UserNotProvisioned",
                                  !.reason = "Account not provisioned"])
        ELSE LET u == directoryResponse.user[1]
                 t == generateToken(ks,
                         [sub |-> u.user_id,
                          email |-> ProviderEmail,
                          organization_id |-> u.organization_id,
                          roles |-> u.roles],
                         clock, cfg.expiryEnv)
                 r2 == [r1 EXCEPT !.issueCalled = TRUE]
             IN  IF ~t.ok
                 THEN Thrown(r2)
                 ELSE LET r3 == [r2 EXCEPT !.setAccess = <<t.token>>,
                                           !.accessMaxAge = AccessCookieMaxAge,
                                           !.clearedState = TRUE,
                                           !.clearedVerifier =
                                               (provider # "github" /\ provider # "linkedin")]
                          r4 == [r3 EXCEPT !.audit = ext.audit]
                      IN  IF logLogin(ext.audit).thrown
                          THEN Thrown(r4)
                          ELSE IF cfg.frontendUrlOk
                          THEN [r4 EXCEPT !.status = 302, !.outcome = "TokenIssued"]
                          ELSE Thrown(r4)

\* whether the outbound call is made with a timeout: the axios calls to GitHub and
\* LinkedIn pass no timeout option (axios then waits without limit), the Google calls go
\* through openid-client with its default http timeout
OutboundTimeout(provider) == provider # "github" /\ provider # "linkedin"

\* an awaited call that never settles: the handler sends no response
Pending(r) == [r EXCEPT !.status = 0, !.outcome = "NoResponse"]

\* an endpoint that never answers ("never"): the call throws when its timeout expires,
\* or the await never returns
Unanswered(r, provider) == IF OutboundTimeout(provider) THEN Thrown(r) ELSE Pending(r)

\* an exchange that takes every provider name for a configured OpenID Connect client
CallbackExchangeAnyClient(r, provider, clients, ks, clock, cfg, ext) ==
    LET r1 == [r EXCEPT !.exchangeCalled = TRUE]
        r2 == [r1 EXCEPT !.userinfoCalled = TRUE]
    IN  IF ext.exchange # "token"
        THEN Thrown(r1)
        ELSE IF ext.userinfo # "email"
        THEN Thrown(r2)
        ELSE CallbackResolve(r2, provider, ks, clock, cfg, ext)

\* handleCallback from the code exchange on (state gate passed)
CallbackExchange(r, provider, clients, ks, clock, cfg, ext) ==
    IF provider = "github" \/ provider = "linkedin"
    THEN LET r1 == [r EXCEPT !.exchangeCalled = TRUE]
         IN  IF ext.exchange = "never"
             THEN Unanswered(r1, provider)
             ELSE IF ext.exchange = "throw"
             THEN Thrown(r1)
             ELSE IF ext.exchange = "none"
             THEN ClearBoth([r1 EXCEPT !.status = 400, !.outcome = "TokenExchangeFailed"])
             ELSE LET r2 == [r1 EXCEPT !.userinfoCalled = TRUE]
                  IN  IF ext.userinfo = "never"
                      THEN Unanswered(r2, provider)
                      ELSE IF ext.userinfo = "throw"
                      THEN Thrown(r2)
                      ELSE IF ext.userinfo = "noemail"
                      THEN ClearBoth([r2 EXCEPT !.status = 400,
                                                !.outcome = "IdentityIncomplete"])
                      ELSE CallbackResolve(r2, provider, ks, clock, cfg, ext)
    ELSE IF provider \notin clients /\ provider # InheritedName
         THEN [r EXCEPT !.status = 500, !.outcome = "ProviderNotConfigured"]
         ELSE IF provider \notin clients
         THEN Thrown(r)
         ELSE LET r1 == [r EXCEPT !.exchangeCalled = TRUE]
              IN  IF ext.exchange = "never"
                  THEN Unanswered(r1, provider)
                  ELSE IF ext.exchange = "throw"
                  THEN Thrown(r1)
                  ELSE LET r2 == [r1 EXCEPT !.userinfoCalled = TRUE]
                       IN  IF ext.userinfo = "never"
                           THEN Unanswered(r2, provider)
                           ELSE IF ext.userinfo = "throw"
                           THEN Thrown(r2)
                           ELSE IF ext.userinfo = "noemail"
                           THEN ClearBoth([r2 EXCEPT !.status = 400,
                                                     !.outcome = "IdentityIncomplete"])
                           ELSE CallbackResolve(r2, provider, ks, clock, cfg, ext)

\* a gate that lets every stored state through
AnyStateMatches(state, storedState) == TRUE

\* state !== storedState
StateMatches(state, storedState) == state = storedState

\* a callback that looks for missing parameters before it looks at the provider's error
handleCallbackParamsFirst(provider, code, state, oauthError, storedState, clients, ks, clock, cfg, ext) ==
    LET base == [NoResponse EXCEPT !.handler = "callback", !.provider = provider,
                                   !.reqCode = code, !.reqError = oauthError,
                                   !.reqState = state, !.storedState = storedState]
    IN  IF ~Truthy(code) \/ ~Present(state)
        THEN [base EXCEPT !.status = 400, !.outcome = "MissingParameters"]
        ELSE IF Truthy(oauthError)
        THEN [base EXCEPT !.status = 302, !.outcome = "ProviderError",
                          !.reason = "OAuth error"]
        ELSE IF ~Present(storedState) \/ ~StateMatches(state, storedState)
        THEN ClearBoth([base EXCEPT !.status = 400, !.outcome = "StateMismatch"])
        ELSE CallbackExchange([base EXCEPT !.passedGate = TRUE],
                              provider, clients, ks, clock, cfg, ext)

\* handleCallback(req, res): query (code, state, oauthError), the request's
\* oauth_<provider>_state cookie, and what the outbound calls answer (ext)
handleCallback(provider, code, state, oauthError, storedState, clients, ks, clock, cfg, ext) ==
    LET base == [NoResponse EXCEPT !.handler = "callback", !.provider = provider,
                                   !.reqCode = code, !.reqError = oauthError,
                                   !.reqState = state, !.storedState = storedState]
    IN  IF Truthy(oauthError)
        THEN [base EXCEPT !.status = 302, !.outcome = "ProviderError",
                          !.reason = "OAuth error"]
        ELSE IF ~Truthy(code) \/ ~Present(state)
        THEN [base EXCEPT !.status = 400, !.outcome = "MissingParameters"]
        ELSE IF ~Present(storedState)
        THEN ClearBoth([base EXCEPT !.status = 400, !.outcome = "StateMismatch"])
        ELSE IF ~StateMatches(state, storedState)
        THEN ClearBoth([base EXCEPT !.status = 400, !.outcome = "StateMismatch"])
        ELSE CallbackExchange([base EXCEPT !.passedGate = TRUE],
                              provider, clients, ks, clock, cfg, ext)

\* an access_token cookie whose value is not a JWT
Undecodable == [malformed |-> TRUE]

\* jwt.decode(token): null (<<>>) for a value that is not a JWT, else the payload
jwtDecode(token) ==
    IF "malformed" \in DOMAIN token THEN <<>> ELSE <<token.payload>>

\* what the audit store does with the logout update: db is null, no login record is found,
\* findOne rejects, updateOne rejects, or the record is updated
LogoutAuditAnswers == {"updated", "notConnected", "noRecord", "findError", "updateError"}

\* an audit update that passes a rejected find or update on to its caller
updateLogoutTimestampOrThrow(user_id, answer) ==
    [thrown |-> answer \in {"findError", "updateError"},
     updated |-> Truthy(user_id) /\ answer = "updated"]

\* auditService.updateLogoutTimestamp({user_id})
updateLogoutTimestamp(user_id, answer) ==
    IF answer = "notConnected"
    THEN [thrown |-> FALSE, updated |-> FALSE]
    ELSE IF ~Truthy(user_id)
    THEN [thrown |-> FALSE, updated |-> FALSE]
    ELSE IF answer = "findError" \/ answer = "noRecord"
    THEN [thrown |-> FALSE, updated |-> FALSE]
    ELSE IF answer = "updateError"
    THEN [thrown |-> FALSE, updated |-> FALSE]
    ELSE [thrown |-> FALSE, updated |-> TRUE]

\* logout(req, res): cookie is the request's access_token cookie (<<>> without one)
logout(cookie, answer) ==
    LET base == [NoResponse EXCEPT !.handler = "logout"]
        decoded == IF cookie = <<>> THEN <<>> ELSE jwtDecode(cookie[1])
        userInfo == IF decoded = <<>> THEN <<>> ELSE <<[user_id |-> decoded[1].sub]>>
        r1 == [base EXCEPT !.clearedAccess = TRUE]
    IN  IF userInfo = <<>>
        THEN [r1 EXCEPT !.status = 200, !.outcome = "LoggedOut"]
        ELSE IF updateLogoutTimestamp(userInfo[1].user_id, answer).thrown
        THEN [r1 EXCEPT !.status = 500, !.outcome = "Exception", !.audit = answer]
        ELSE [r1 EXCEPT !.status = 200, !.outcome = "LoggedOut", !.audit = answer]

(***************************************************************************)
(* coordinatorController.js                                                *)
(***************************************************************************)
\* a name every object literal inherits from Object.prototype with a value that is
\* not a function
InheritedObject == "__proto__"

\* handleGetJwks: the same conversion loop as generateJWKS, over getAllKids()
RECURSIVE CoordinatorJwksOf(_)
CoordinatorJwksOf(keys) ==
    IF keys = <<>>
    THEN <<>>
    ELSE LET kid == Head(keys).kid
             publicKey == Head(keys).publicKey
         IN  IF ~Truthy(publicKey)
             THEN CoordinatorJwksOf(Tail(keys))
             ELSE IF ~Parses(publicKey)
             THEN CoordinatorJwksOf(Tail(keys))
             ELSE <<[kty |-> "RSA", use |-> "sig", kid |-> kid,
                     alg |-> "RS256", n |-> publicKey]>> \o CoordinatorJwksOf(Tail(keys))

\* requestBody.response: `defined` are the fields the Coordinator put in the template
ResponseTemplate(defined) ==
    [defined |-> defined, jwks |-> <<>>, keys |-> <<>>,
     message |-> Absent, status |-> Absent, error |-> Absent]

\* if (response.error !== undefined) response.error = text
SetError(response, text) ==
    IF "error" \in response.defined THEN [response EXCEPT !.error = text] ELSE response

handleGetJwks(ks, response) ==
    LET jwksKeys == CoordinatorJwksOf(ks.keys)
        r1 == IF "jwks" \in response.defined
              THEN [response EXCEPT !.jwks = <<[keys |-> jwksKeys]>>]
              ELSE response
    IN  IF "keys" \in r1.defined THEN [r1 EXCEPT !.keys = <<jwksKeys>>] ELSE r1

handlePerformLogout(user_id, response, answer) ==
    LET r1 == IF "message" \in response.defined
              THEN [response EXCEPT !.message = "Logout completed successfully"]
              ELSE response
        r2 == IF "status" \in r1.defined THEN [r1 EXCEPT !.status = "success"] ELSE r1
    IN  IF updateLogoutTimestamp(user_id, answer).thrown
        THEN SetError(r2, "Failed to perform logout")
        ELSE r2

\* actionHandlers[action] on the object literal of the two handlers
ActionHandler(action) ==
    CASE action = "get-jwks" -> "handleGetJwks"
      [] action = "perform-logout" -> "handlePerformLogout"
      [] action = InheritedName -> "Object"
      [] action = InheritedObject -> "Object.prototype"
      [] OTHER -> Absent

\* handleCoordinatorRequest(req, res)
handleCoordinatorRequest(body, action, user_id, defined, answer, ks) ==
    LET response == ResponseTemplate(defined)
        handler == ActionHandler(action)
    IN  IF body # "json"
        THEN [status |-> 400, invoked |-> Absent,
              response |-> SetError(ResponseTemplate({"error"}),
                                    "Invalid JSON in request body")]
        ELSE IF ~Truthy(action)
        THEN [status |-> 400, invoked |-> Absent,
              response |-> SetError(response, "No action specified")]
        ELSE IF ~Truthy(handler)
        THEN [status |-> 400, invoked |-> Absent,
              response |-> SetError(response, "Unknown action")]
        ELSE IF handler = "handleGetJwks"
        THEN [status |-> 200, invoked |-> handler, response |-> handleGetJwks(ks, response)]
        ELSE IF handler = "handlePerformLogout"
        THEN [status |-> 200, invoked |-> handler,
              response |-> handlePerformLogout(user_id, response, answer)]
        ELSE IF handler = "Object"
        THEN [status |-> 200, invoked |-> handler, response |-> response]
        ELSE [status |-> 500, invoked |-> Absent,
              response |-> SetError(response, "handler is not a function")]

\* the browser applies the Set-Cookie headers of a response for `provider`
ApplyCookies(j, r) ==
    [state |-> [p \in ProviderNames |->
                   IF p # r.provider THEN j.state[p]
                   ELSE IF r.clearedState THEN 0
                   ELSE IF Present(r.setState) THEN r.setState
                   ELSE j.state[p]],
     verifier |-> [p \in ProviderNames |->
                   IF p # r.provider THEN j.verifier[p]
                   ELSE IF r.clearedVerifier THEN 0
                   ELSE IF Present(r.setVerifier) THEN r.setVerifier
                   ELSE j.verifier[p]],
     access_token |-> IF r.clearedAccess THEN <<>>
                      ELSE IF r.setAccess # <<>> THEN r.setAccess
                      ELSE j.access_token]

(***************************************************************************)
(* Bounds and inputs                                                       *)
(***************************************************************************)
MaxHeld == 1
MaxTicks == 2
MaxNonce == 2

\* one clock step: ten minutes
TickSeconds == 600

KidValues == KeyIds \cup {Absent}

\* (private key, public key) as configured: a pair, two halves of different pairs,
\* a half that does not parse, a half that is not set
KeyPairInputs ==
    {<<"m1", "m1">>, <<"m2", "m2">>, <<"m1", "m2">>,
     <<Bad, "m1">>, <<"m1", Bad>>, <<Absent, "m1">>, <<"m1", Absent>>}

EnvSlots == {[privateKey |-> kp[1], publicKey |-> kp[2], kid |-> k] :
                kp \in KeyPairInputs, k \in KidValues}
NoFile == [privateKey |-> Absent, publicKey |-> Absent]

\* the environments the process can be started with
StartupEnvs ==
    {[NODE_ENV |-> "production", slots |-> <<s1, s2>>, file |-> NoFile,
      JWT_KEY_ID |-> Absent, JWT_ACTIVE_KID |-> a] :
        s1 \in EnvSlots, s2 \in EnvSlots, a \in KidValues}
    \cup
    {[NODE_ENV |-> "development", slots |-> <<>>,
      file |-> [privateKey |-> kp[1], publicKey |-> kp[2]],
      JWT_KEY_ID |-> k, JWT_ACTIVE_KID |-> a] :
        kp \in KeyPairInputs, k \in KidValues, a \in KidValues}

ExpiryEnvs == {<<>>, <<5>>}

\* minAgeMinutes of a purge request: none required, the default
PurgeAges == {0, 60}

PurgeLists ==
    {<<>>} \cup {<<k>> : k \in KeyIds} \cup {<<k1, k2>> : k1 \in KeyIds, k2 \in KeyIds}

ClaimInputs ==
    {[sub |-> "u1", email |-> "a@example.org", organization_id |-> "o1",
      roles |-> <<"user">>],
     [sub |-> "u2", email |-> "b@example.org", organization_id |-> "o2",
      roles |-> <<>>]}

\* the access_token cookies a client can send besides the ones this process issued:
\* any header kid, any algorithm, a signature made with either private key, any issuer
\* and audience; all of them expire 900 s after the start
PresentedTokens ==
    {[kid |-> k, alg |-> a,
      payload |-> [sub |-> "u1", email |-> "a@example.org", organization_id |-> "o1",
                   roles |-> <<"user">>, iat |-> 0, exp |-> DefaultExpiryMinutes * 60,
                   iss |-> i, aud |-> au],
      sig |-> sg] :
        k \in {Absent, "auth-key-1", "auth-key-2"}, a \in {"RS256", "none"},
        sg \in KeyMaterial, i \in {JwtIssuer, "someone-else"},
        au \in {JwtAudience, "another-audience"}}

EmptyJar ==
    [state |-> [p \in ProviderNames |-> 0],
     verifier |-> [p \in ProviderNames |-> 0],
     access_token |-> <<>>]

(***************************************************************************)
(* Initial state: the modules have been loaded                             *)
(***************************************************************************)
Init ==
    /\ \E env \in StartupEnvs : keyStore = initialize(EmptyStore, env)
    /\ jwksCache = generateJWKS(keyStore)
    /\ now = 0
    /\ held = {}
    /\ ret = [op |-> "startup"]
    /\ \E e \in ExpiryEnvs, f \in BOOLEAN : config = [expiryEnv |-> e, frontendUrlOk |-> f]
    /\ oauthClients \in SUBSET Providers
    /\ jar = EmptyJar
    /\ nonce = 0
    /\ resp = NoResponse

(***************************************************************************)
(* Key rotation and key store actions                                      *)
(***************************************************************************)
Rotate(privNew, pubNew, kidNew) ==
    LET r == rotateToNewKey(keyStore, jwksCache, privNew, pubNew, kidNew)
    IN  /\ keyStore' = r.ks
        /\ jwksCache' = r.cache
        /\ ret' = r.ret
        /\ UNCHANGED <<now, held, config, loginVars>>

AddKeyWithoutActivating(kid, privateKey, publicKey) ==
    LET r == addKeyWithoutActivating(keyStore, jwksCache, kid, privateKey, publicKey)
    IN  /\ keyStore' = r.ks
        /\ jwksCache' = r.cache
        /\ ret' = r.ret
        /\ UNCHANGED <<now, held, config, loginVars>>

PurgeExpiredKeys(hasList, kidsToPurge, minAgeMinutes) ==
    LET r == purgeExpiredKeys(keyStore, jwksCache, hasList, kidsToPurge, minAgeMinutes)
    IN  /\ keyStore' = r.ks
        /\ jwksCache' = r.cache
        /\ ret' = r.ret @@ [hasList |-> hasList]
        /\ UNCHANGED <<now, held, config, loginVars>>

RemoveKey(kid) ==
    /\ keyStore' = removeKey(keyStore, kid)
    /\ ret' = [op |-> "remove", kid |-> kid]
    /\ UNCHANGED <<jwksCache, now, held, config, loginVars>>

SetActiveKid(kid) ==
    LET r == setActiveKid(keyStore, kid)
    IN  /\ keyStore' = r.ks
        /\ ret' = [op |-> "setActive", kid |-> kid, thrown |-> r.thrown]
        /\ UNCHANGED <<jwksCache, now, held, config, loginVars>>

(***************************************************************************)
(* Token actions                                                           *)
(***************************************************************************)
IssueToken(claims) ==
    LET t == generateToken(keyStore, claims, now, config.expiryEnv)
    IN  /\ ret' = [op |-> "issue", claims |-> claims, result |-> t]
        /\ held' = IF t.ok /\ Cardinality(held) < MaxHeld THEN held \cup {t.token} ELSE held
        /\ UNCHANGED <<keyStore, jwksCache, now, config, loginVars>>

DropToken ==
    /\ held # {}
    /\ held' = {}
    /\ UNCHANGED <<keyStore, jwksCache, now, ret, config, loginVars>>

ValidateRequest(cookie) ==
    /\ ret' = [op |-> "validate", cookie |-> cookie,
               result |-> validateJWT(keyStore, cookie, now)]
    /\ UNCHANGED <<keyStore, jwksCache, now, held, config, loginVars>>

Tick ==
    /\ now < MaxTicks * TickSeconds
    /\ now' = now + TickSeconds
    /\ UNCHANGED <<keyStore, jwksCache, held, ret, config, loginVars>>

(***************************************************************************)
(* Login actions                                                           *)
(***************************************************************************)
InitiateOAuth(provider) ==
    LET r == initiateOAuth(provider, oauthClients, nonce)
    IN  /\ nonce < MaxNonce
        /\ resp' = r
        /\ jar' = ApplyCookies(jar, r)
        /\ nonce' = IF Present(r.setState) THEN nonce + 1 ELSE nonce
        /\ UNCHANGED <<keyVars, config, oauthClients>>

HandleCallback(provider, code, state, oauthError, ext) ==
    LET r == handleCallback(provider, code, state, oauthError, jar.state[provider],
                            oauthClients, keyStore, now, config, ext)
    IN  /\ resp' = r
        /\ jar' = ApplyCookies(jar, r)
        /\ UNCHANGED <<keyVars, config, oauthClients, nonce>>

\* GET /auth/:provider/callback from a client that sends an oauth_<provider>_state
\* cookie of its own making
CallbackWithCookies(provider, code, state, oauthError, storedState, ext) ==
    LET r == handleCallback(provider, code, state, oauthError, storedState,
                            oauthClients, keyStore, now, config, ext)
    IN  /\ resp' = r
        /\ jar' = ApplyCookies(jar, r)
        /\ UNCHANGED <<keyVars, config, oauthClients, nonce>>

\* POST /logout without a cookie ("absent"), with a cookie that is not a token
\* ("undecodable") or with the cookie the browser holds ("held")
Logout(sent, answer) ==
    LET cookie == IF sent = "absent" THEN <<>>
                  ELSE IF sent = "undecodable" THEN <<Undecodable>>
                  ELSE jar.access_token
        r == logout(cookie, answer)
    IN  /\ sent = "held" => jar.access_token # <<>>
        /\ resp' = [r EXCEPT !.reqToken = sent]
        /\ jar' = ApplyCookies(jar, r)
        /\ UNCHANGED <<keyVars, config, oauthClients, nonce>>

\* the ten-minute maxAge of the OAuth cookies runs out
OAuthCookiesExpire(provider) ==
    /\ Present(jar.state[provider]) \/ Present(jar.verifier[provider])
    /\ jar' = [jar EXCEPT !.state[provider] = 0, !.verifier[provider] = 0]
    /\ UNCHANGED <<keyVars, config, oauthClients, nonce, resp>>

\* the Coordinator answers the login flow is explored with: a user, 404, a timeout
UserFound == [code |-> "none", status |-> 200, hasUser |-> TRUE]
LoginAnswers ==
    {UserFound,
     [code |-> "none", status |-> 404, hasUser |-> FALSE],
     [code |-> "ECONNABORTED", status |-> 0, hasUser |-> FALSE]}

\* what the provider and the directory answer; a call that is never reached has one answer
ExtOutcomes ==
    {e \in [exchange : {"token", "none", "throw"},
            userinfo : {"email", "noemail", "throw"},
            directory : LoginAnswers,
            mock : {FALSE},
            audit : {"inserted"}] :
        /\ e.exchange # "token" => e.userinfo = "email"
        /\ e.userinfo # "email" => e.directory = UserFound}

\* a Google token exchange (client.callback) returns a token set or throws; a request
\* turned away before the state gate makes no outbound call
ExtFor(provider, code, state, oauthError) ==
    IF Truthy(oauthError) \/ ~Truthy(code) \/ ~Present(state)
    THEN {[exchange |-> "token", userinfo |-> "email", directory |-> UserFound,
           mock |-> FALSE, audit |-> "inserted"]}
    ELSE {e \in ExtOutcomes : provider \notin {"github", "linkedin"} => e.exchange # "none"}

\* the provider hands over a verified email; the Coordinator answers in every way
ExtResolve ==
    [exchange : {"token"}, userinfo : {"email"}, directory : DirectoryAnswers,
     mock : BOOLEAN, audit : {"inserted"}]

(***************************************************************************)
(* Specifications                                                          *)
(***************************************************************************)
NextRotation ==
    \/ \E kp \in KeyPairInputs, k \in KidValues : Rotate(kp[1], kp[2], k)
    \/ \E k \in KidValues, kp \in KeyPairInputs : AddKeyWithoutActivating(k, kp[1], kp[2])
    \/ \E l \in PurgeLists, m \in PurgeAges : PurgeExpiredKeys(TRUE, l, m)
    \/ \E m \in PurgeAges : PurgeExpiredKeys(FALSE, <<>>, m)

NextKeyStore ==
    \/ NextRotation
    \/ \E k \in KidValues : RemoveKey(k)
    \/ \E k \in KidValues : SetActiveKid(k)

NextTokens ==
    \/ \E c \in ClaimInputs : IssueToken(c)
    \/ DropToken
    \/ \E t \in held : ValidateRequest(<<t>>)
    \/ ValidateRequest(<<>>)
    \/ Tick

NextLogin ==
    \/ \E p \in ProviderNames : InitiateOAuth(p)
    \/ \E p \in ProviderNames, c \in {Absent, "code"}, s \in (0..nonce) \cup {ForgedState},
          o \in {Absent, "access_denied"} :
            \E e \in ExtFor(p, c, s, o) : HandleCallback(p, c, s, o, e)
    \/ \E p \in ProviderNames : OAuthCookiesExpire(p)

Next == NextKeyStore \/ NextTokens \/ NextLogin

Spec == Init /\ [][Next]_vars

\* the key store under rotation and direct key-manager calls
InitKeys ==
    /\ Init
    /\ config = [expiryEnv |-> <<>>, frontendUrlOk |-> TRUE]
    /\ oauthClients = Providers

SpecKeys == InitKeys /\ [][NextKeyStore]_vars

\* the login flow of one browser against a deployment whose key file held one genuine
\* pair or none
InitLogin ==
    /\ Init
    /\ Len(keyStore.keys) <= 1
    /\ \A i \in 1..Len(keyStore.keys) :
          /\ keyStore.keys[i].kid = "auth-key-1"
          /\ keyStore.keys[i].privateKey = "m1"
          /\ keyStore.keys[i].publicKey = "m1"
    /\ config.expiryEnv = <<>>
    /\ oauthClients \in {Providers, {"github"}}

SpecLogin == InitLogin /\ [][NextLogin]_vars

\* logins whose callback carries the stored state and a code, against every answer of
\* the Coordinator and both token lifetimes
InitResolve ==
    /\ Init
    /\ Len(keyStore.keys) = 1
    /\ keyStore.keys[1] = [kid |-> "auth-key-1", privateKey |-> "m1", publicKey |-> "m1"]
    /\ config.frontendUrlOk
    /\ oauthClients = Providers

NextResolve ==
    \/ \E p \in Providers : InitiateOAuth(p)
    \/ \E p \in Providers, e \in ExtResolve :
          /\ Present(jar.state[p])
          /\ HandleCallback(p, "code", jar.state[p], Absent, e)
    \/ \E p \in Providers : OAuthCookiesExpire(p)
    \/ Tick

SpecResolve == InitResolve /\ [][NextResolve]_vars

\* the provider's endpoints and the Coordinator answer or never answer; a directory
\* request that gets no answer ends with ECONNABORTED when its 10 s timeout expires
ExtUnanswered ==
    [exchange : {"token", "never"}, userinfo : {"email", "never"},
     directory : {UserFound, [code |-> "ECONNABORTED", status |-> 0, hasUser |-> FALSE]},
     mock : {FALSE}, audit : {"inserted"}]

\* callbacks that carry the stored state, against endpoints that may never answer
NextUnanswered ==
    \/ \E p \in Providers : InitiateOAuth(p)
    \/ \E p \in Providers, e \in ExtUnanswered :
          /\ Present(jar.state[p])
          /\ HandleCallback(p, "code", jar.state[p], Absent, e)
    \/ \E p \in Providers : OAuthCookiesExpire(p)
    \/ Tick

SpecUnanswered == InitResolve /\ [][NextUnanswered]_vars

\* callbacks for google and for names that are no provider, with any code, state and
\* state cookie
NextForged ==
    \/ InitiateOAuth("google")
    \/ \E p \in {"google", "other", InheritedName}, c \in {Absent, "code"},
          s \in {0, 1, ForgedState}, st \in {0, 1, ForgedState},
          o \in {Absent, "access_denied"} :
            \E e \in ExtFor(p, c, s, o) : CallbackWithCookies(p, c, s, o, st, e)

SpecForged == InitLogin /\ [][NextForged]_vars

\* one browser logging in and out against every answer of the audit store
NextSession ==
    \/ \E p \in Providers : InitiateOAuth(p)
    \/ \E p \in Providers, a \in LoginAuditAnswers :
          /\ Present(jar.state[p])
          /\ HandleCallback(p, "code", jar.state[p], Absent,
                            [exchange |-> "token", userinfo |-> "email",
                             directory |-> UserFound, mock |-> FALSE, audit |-> a])
    \/ \E c \in {"absent", "undecodable", "held"}, a \in LogoutAuditAnswers :
          Logout(c, a)
    \/ Tick

SpecSession == InitResolve /\ [][NextSession]_vars

\* the rotation service alone
SpecRotation == InitKeys /\ [][NextRotation]_vars

\* tokens issued and verified while keys rotate; the deployment starts from its key
\* file (one key, or none) and rotates to the default id or to "auth-key-1"
TokenKids == {Absent, "auth-key-1"}

InitTokens ==
    /\ Init
    /\ Len(keyStore.keys) <= 1
    /\ KidSet(keyStore) \subseteq {"auth-key-1"}
    /\ config.frontendUrlOk
    /\ oauthClients = Providers

NextTokenRotation ==
    \/ \E kp \in KeyPairInputs, k \in TokenKids : Rotate(kp[1], kp[2], k)
    \/ \E k \in TokenKids, kp \in KeyPairInputs : AddKeyWithoutActivating(k, kp[1], kp[2])
    \/ \E k \in TokenKids \ {Absent} : PurgeExpiredKeys(TRUE, <<k>>, 60)
    \/ PurgeExpiredKeys(FALSE, <<>>, 60)
    \/ NextTokens

SpecTokens == InitTokens /\ [][NextTokenRotation]_vars

\* the validation middleware against every cookie a client can send, while the clock
\* runs and keys are rotated in and purged
NextVerify ==
    \/ \E t \in PresentedTokens : ValidateRequest(<<t>>)
    \/ ValidateRequest(<<>>)
    \/ Tick
    \/ Rotate("m2", "m2", Absent)
    \/ PurgeExpiredKeys(FALSE, <<>>, 60)

SpecVerify == InitKeys /\ [][NextVerify]_vars

\* direct calls of the key manager with the ids of keys, no id, and an inherited name
NextKeyApi ==
    \/ \E k \in KidValues \cup {InheritedName} : RemoveKey(k)
    \/ \E k \in KidValues \cup {InheritedName} : SetActiveKid(k)
    \/ Rotate("m2", "m2", Absent)

SpecKeyApi == InitKeys /\ [][NextKeyApi]_vars

\* POST /api/fill-content-metrics
CoordinatorRequest(body, action, user_id, defined, answer) ==
    LET r == handleCoordinatorRequest(body, action, user_id, defined, answer, keyStore)
    IN  /\ ret' = [op |-> "coordinator", body |-> body, action |-> action,
                   status |-> r.status, invoked |-> r.invoked, response |-> r.response]
        /\ UNCHANGED <<keyStore, jwksCache, now, held, config, loginVars>>

CoordinatorActions ==
    {Absent, "get-jwks", "perform-logout", "get-user", InheritedName, InheritedObject}

CoordinatorTemplates ==
    {{}, {"jwks", "error"}, {"keys", "message", "status", "error"}}

\* the key store under rotation, read by the Coordinator
NextCoordinator ==
    \/ \E kp \in {<<"m1", "m1">>, <<"m1", Bad>>}, k \in KidValues : Rotate(kp[1], kp[2], k)
    \/ \E k \in KidValues, kp \in {<<"m2", "m2">>, <<Bad, "m2">>} :
          AddKeyWithoutActivating(k, kp[1], kp[2])
    \/ \E l \in PurgeLists : PurgeExpiredKeys(TRUE, l, 60)
    \/ PurgeExpiredKeys(FALSE, <<>>, 60)
    \/ \E d \in CoordinatorTemplates : CoordinatorRequest("malformed", Absent, Absent, d, "updated")
    \/ \E a \in CoordinatorActions \ {"perform-logout"}, d \in CoordinatorTemplates :
          CoordinatorRequest("json", a, Absent, d, "updated")
    \/ \E u \in {Absent, "u1"}, d \in CoordinatorTemplates, w \in {"updated", "findError"} :
          CoordinatorRequest("json", "perform-logout", u, d, w)

SpecCoordinator == InitKeys /\ [][NextCoordinator]_vars

\* the process start: keyManager.js is loaded with an empty store and calls initialize()
\* under the environment the process was given, then jwksController.js fills its cache
BootPairs == {<<"m1", "m1">>, <<"m2", "m2">>, <<Absent, "m1">>, <<"m1", Absent>>}

BootSlots == {[privateKey |-> kp[1], publicKey |-> kp[2], kid |-> k] :
                 kp \in BootPairs, k \in {Absent, "auth-key-1", "auth-key-2"}}

BootActiveKids == {Absent, "auth-key-1", "auth-key-2", "auth-key-3", InheritedName}

BootEnvs ==
    {[NODE_ENV |-> "production", slots |-> <<s1, s2, s3>>, file |-> NoFile,
      JWT_KEY_ID |-> Absent, JWT_ACTIVE_KID |-> a] :
        s1 \in BootSlots, s2 \in BootSlots, s3 \in BootSlots, a \in BootActiveKids}
    \cup
    {[NODE_ENV |-> "development", slots |-> <<>>,
      file |-> [privateKey |-> kp[1], publicKey |-> kp[2]],
      JWT_KEY_ID |-> k, JWT_ACTIVE_KID |-> a] :
        kp \in BootPairs, k \in {Absent, "auth-key-1", "auth-key-2"},
        a \in BootActiveKids}

InitBoot ==
    /\ keyStore = EmptyStore
    /\ jwksCache = <<>>
    /\ now = 0
    /\ held = {}
    /\ \E env \in BootEnvs : ret = [op |-> "boot", env |-> env]
    /\ config = [expiryEnv |-> <<>>, frontendUrlOk |-> TRUE]
    /\ oauthClients = Providers
    /\ jar = EmptyJar
    /\ nonce = 0
    /\ resp = NoResponse

Startup ==
    /\ ret.op = "boot"
    /\ keyStore' = initialize(keyStore, ret.env)
    /\ jwksCache' = generateJWKS(keyStore')
    /\ ret' = [op |-> "initialize", env |-> ret.env]
    /\ UNCHANGED <<now, held, config, oauthClients, jar, nonce, resp>>

SpecBoot == InitBoot /\ [][Startup]_vars

\* the slots initialize() scanned and stored: 1..N-1 for the first missing slot N
LoadedSlots(env) ==
    {n \in DOMAIN env.slots : \A m \in 1..n : SlotPresent(env, m)}

\* tokens issued while keys are rotated in, added and purged
NextIssue ==
    \/ \E kp \in KeyPairInputs, k \in TokenKids : Rotate(kp[1], kp[2], k)
    \/ \E k \in TokenKids, kp \in KeyPairInputs : AddKeyWithoutActivating(k, kp[1], kp[2])
    \/ PurgeExpiredKeys(FALSE, <<>>, 60)
    \/ \E c \in ClaimInputs : IssueToken(c)
    \/ DropToken

SpecIssue == InitTokens /\ [][NextIssue]_vars

(***************************************************************************)
(* Claims                                                                  *)
(***************************************************************************)

\* C1: whatever rotate, addKeyWithoutActivating, purgeExpiredKeys (with or without a
\* list, the list naming the active id or not) and direct removeKey calls have run,
\* the active key id names an entry of the key store: no remove or purge deletes the
\* key that is active when it is called.
C1_ActiveKeyNeverDeleted ==
    Truthy(keyStore.activeKid) => HasKey(keyStore, keyStore.activeKid)

\* removeKey was just called on the active key id, and the key is still there
C1_Witness ==
    /\ ret.op = "remove"
    /\ ret.kid = keyStore.activeKid
    /\ HasKey(keyStore, ret.kid)
    /\ Len(keyStore.keys) > 1

\* C4: if the key map is non-empty then activeKid is set and names an entry of it.
C4_NonEmptyStoreHasActiveKey ==
    Len(keyStore.keys) > 0 =>
        Truthy(keyStore.activeKid) /\ HasKey(keyStore, keyStore.activeKid)

\* a key store entry whose public key is the parseable counterpart of its private key
GenuinePair(e) == Parses(e.privateKey) /\ e.publicKey = e.privateKey

\* C2: after rotate(newId, ...) succeeds from a store whose active key is A, for every
\* newId (one that already names a key of the store included): a token issued under A
\* before the rotation is still accepted, a token issued after it is accepted and
\* carries kid = newId, and the JWKS document lists both A and newId.  Stated for
\* rotations whose old and new key material are genuine pairs.
C2_RotationKeepsOldTokensValid ==
    [][\A kp \in KeyPairInputs, k \in KidValues :
          (/\ Rotate(kp[1], kp[2], k)
           /\ ret'.success
           /\ kp[1] = kp[2]
           /\ Truthy(keyStore.activeKid)
           /\ HasKey(keyStore, keyStore.activeKid)
           /\ GenuinePair(Entry(keyStore, keyStore.activeKid)))
          => LET A == keyStore.activeKid
                 newId == ret'.newActiveKid
             IN  /\ \A t \in held :
                        (t.kid = A /\ Accepts(keyStore, t, now))
                            => Accepts(keyStore', t, now')
                 /\ \A c \in ClaimInputs :
                        LET n == generateToken(keyStore', c, now', config'.expiryEnv)
                        IN  /\ n.ok
                            /\ n.token.kid = newId
                            /\ Accepts(keyStore', n.token, now')
                 /\ {A, newId} \subseteq JwksKids(jwksCache')
      ]_vars

\* C3: whenever issue succeeds, verify accepts the returned token right away and yields
\* the issued claims: sub, email, organization_id and roles as given, issuer and
\* audience the configured ones, exp = iat + configured lifetime minutes * 60.
C3_IssuedTokenVerifies ==
    [][\A c \in ClaimInputs :
          (IssueToken(c) /\ ret'.result.ok)
          => LET t == ret'.result.token
                 v == validateJWT(keyStore', <<t>>, now')
             IN  /\ v.status = 200
                 /\ v.user = [user_id |-> c.sub, email |-> c.email,
                              organization_id |-> c.organization_id, roles |-> c.roles]
                 /\ t.payload.iss = JwtIssuer
                 /\ t.payload.aud = JwtAudience
                 /\ t.payload.exp = t.payload.iat + ExpiryMinutesOf(config.expiryEnv) * 60
      ]_vars

C6_FailureClearsOAuthCookies ==
    (resp.handler = "callback" /\ resp.outcome # "TokenIssued") =>
        resp.clearedState /\ resp.clearedVerifier

\* C7: for every supported provider, after a callback that ended in TokenIssued neither
\* the state nor the code-verifier cookie that initiateOAuth set for the provider is
\* left in the browser.
C7_SuccessClearsOAuthCookies ==
    (resp.handler = "callback" /\ resp.outcome = "TokenIssued"
        /\ resp.provider \in Providers) =>
        /\ ~Present(jar.state[resp.provider])
        /\ ~Present(jar.verifier[resp.provider])

\* C8: once a callback of a provider has ended (in any outcome), a later callback of
\* that provider presenting the same state, with the cookies the earlier response left
\* behind, does not pass the state gate.
C8_StateConsumedOnce ==
    [][\A p \in ProviderNames, c \in {Absent, "code"}, o \in {Absent, "access_denied"},
         s \in 1..MaxNonce :
          \A e \in ExtFor(p, c, s, o) :
              (/\ resp.handler = "callback"
               /\ resp.provider = p
               /\ resp.reqState = s
               /\ HandleCallback(p, c, s, o, e))
              => ~resp'.passedGate
      ]_vars

C10_NoKeysNoToken ==
    Len(keyStore.keys) = 0 =>
        /\ \A c \in ClaimInputs :
              generateToken(keyStore, c, now, config.expiryEnv)
                  = [ok |-> FALSE, error |-> "JWT private key not configured"]
        /\ (resp.handler = "callback" /\ resp.issueCalled) =>
              /\ resp.outcome = "Exception"
              /\ resp.status = 500
              /\ resp.setAccess = <<>>
              /\ jar.access_token = <<>>

\* a callback passed the gate, resolved the user and called generateToken on an empty
\* key store
C10_Witness ==
    /\ Len(keyStore.keys) = 0
    /\ resp.handler = "callback"
    /\ resp.directoryCalled
    /\ resp.issueCalled
    /\ resp.status = 500

\* the Coordinator answered, and the answer names no user (200 without user_id, 403, 404)
LookupMiss(a) ==
    /\ a.code = "none"
    /\ \/ a.status = 403
       \/ a.status = 404
       \/ (a.status = 200 /\ ~a.hasUser)

\* the Coordinator is unreachable or answers 5xx
LookupUnavailable(a) ==
    \/ a.code \in {"ECONNREFUSED", "ECONNABORTED", "ENOTFOUND"}
    \/ (a.code = "none" /\ a.status >= 500)

\* what the user gets to see of a callback response
UserFacing(r) == [status |-> r.status, outcome |-> r.outcome, reason |-> r.reason]

C12_UnavailableDistinctFromMiss ==
    (resp.handler = "callback" /\ resp.directoryCalled /\ ~resp.mock
        /\ LookupUnavailable(resp.lookup)) =>
        \A a \in {m \in DirectoryAnswers : LookupMiss(m)} :
            UserFacing(resp) #
                UserFacing(handleCallback(resp.provider, resp.reqCode, resp.reqState,
                                          resp.reqError, resp.storedState, oauthClients,
                                          keyStore, now, config,
                                          [exchange |-> "token", userinfo |-> "email",
                                           directory |-> a, mock |-> FALSE]))

\* C13: every failure of the directory lookup (miss, 403/404, 5xx, connection refused,
\* timeout, any other request error) ends the callback with a redirect (302) carrying
\* a reason, never with a 500 response.
C13_LookupFailureRedirects ==
    (resp.handler = "callback" /\ resp.directoryCalled /\ ~resp.mock
        /\ resp.lookup # UserFound) =>
        /\ resp.status = 302
        /\ resp.reason # ""

\* C14: for every configured token lifetime the access_token cookie set on TokenIssued
\* lasts as long as the token it carries: maxAge (milliseconds) = (exp - iat) * 1000.
C14_CookieLifetimeMatchesToken ==
    (resp.handler = "callback" /\ resp.outcome = "TokenIssued") =>
        resp.accessMaxAge
            = (resp.setAccess[1].payload.exp - resp.setAccess[1].payload.iat) * 1000

C16_GracePeriodBeforePurge ==
    [][PurgeExpiredKeys(FALSE, <<>>, 60) =>
          \A t \in held : Accepts(keyStore, t, now) => Accepts(keyStore', t, now')
      ]_vars

\* the ids listed in a sequence
Ids(list) == {list[i] : i \in 1..Len(list)}

\* C17: for every purge call (a list or none; list entries in the store, absent from
\* it, or the active id) the returned purged list is exactly the set of ids that were
\* in the key store before the call and are not after it, and the returned remaining
\* list is exactly the set of ids in the key store after the call.
C17_PurgeReportsWhatItRemoved ==
    [][\A h \in BOOLEAN, l \in {p \in PurgeLists : ret'.op = "purge"}, m \in PurgeAges :
          PurgeExpiredKeys(h, l, m) =>
              /\ Ids(ret'.purged) = KidSet(keyStore) \ KidSet(keyStore')
              /\ "remainingKeys" \in DOMAIN ret'
              /\ Ids(ret'.remainingKeys) = KidSet(keyStore')
      ]_vars

\* C18: a successful rotate(newId, ...) from a store with active key A and key set K
\* returns oldActiveKid = A, newActiveKid = newId and totalKeys = |K \cup {newId}|;
\* afterwards getRotationStatus reports activeKid = newId, availableKids = K \cup {newId}
\* and keyCount = |availableKids|, and the next token issued carries kid = newId.
C18_RotateReportsNewState ==
    [][\A kp \in {p \in KeyPairInputs : ret'.op = "rotate" /\ ret'.success},
         k \in KidValues :
          Rotate(kp[1], kp[2], k) =>
              LET newId == IF Truthy(k) THEN k ELSE DefaultNewKid
                  K == KidSet(keyStore)
                  status == getRotationStatus(keyStore')
              IN  /\ ret'.oldActiveKid = keyStore.activeKid
                  /\ ret'.newActiveKid = newId
                  /\ ret'.totalKeys = Cardinality(K \cup {newId})
                  /\ status.activeKid = newId
                  /\ Ids(status.availableKids) = K \cup {newId}
                  /\ status.keyCount = Len(status.availableKids)
                  /\ status.keyCount = Cardinality(K \cup {newId})
                  /\ \A c \in ClaimInputs :
                         LET t == generateToken(keyStore', c, now', config'.expiryEnv)
                         IN  t.ok /\ t.token.kid = newId
      ]_vars

\* a rotation to an id that was not in the store has just replaced an active key, and
\* the store holds three keys
C18_Witness ==
    /\ ret.op = "rotate"
    /\ ret.success
    /\ Truthy(ret.oldActiveKid)
    /\ ret.oldActiveKid # ret.newActiveKid
    /\ ret.totalKeys = 3
    /\ keyStore.activeKid = ret.newActiveKid

\* C19: when rotate or addKeyWithoutActivating fails (new key material missing or not
\* parseable, or no key id given), the key store (key set, key material, active id) and
\* the cached JWKS document are exactly as they were before the call.  (ret is what the
\* call just made returned.)
C19_FailedRotationChangesNothing ==
    [][(ret'.op \in {"rotate", "add"} /\ ~ret'.success) =>
          /\ keyStore' = keyStore
          /\ jwksCache' = jwksCache
      ]_vars

\* a rotation with unparseable key material has just failed on a store of two keys
C19_Witness ==
    /\ ret.op = "rotate"
    /\ ~ret.success
    /\ ret.error = "Invalid key format"
    /\ Len(keyStore.keys) = 2
    /\ JwksKids(jwksCache) = KidSet(keyStore)

\* C20: at startup and after every completed rotation-controller operation the cached
\* JWKS document has exactly one entry per key-store entry whose public key converts, and
\* so its set of kids equals the key store's set of key ids.
C20_CacheMirrorsKeyStore ==
    /\ jwksCache = generateJWKS(keyStore)
    /\ JwksKids(jwksCache) = KidSet(keyStore)

\* C21: the JWKS document is always produced: for an empty key store it has no entry, and
\* otherwise it holds one entry for every key whose public key converts and leaves out
\* only the keys whose public key does not.
C21_DocumentSkipsOnlyFailingKeys ==
    LET convertible == {i \in 1..Len(keyStore.keys) :
                          /\ Truthy(keyStore.keys[i].publicKey)
                          /\ Parses(keyStore.keys[i].publicKey)}
    IN  /\ Len(keyStore.keys) = 0 => jwksCache = <<>>
        /\ Len(jwksCache) = Cardinality(convertible)
        /\ \A i \in convertible :
              \E j \in 1..Len(jwksCache) :
                  /\ jwksCache[j].kid = keyStore.keys[i].kid
                  /\ jwksCache[j].n = keyStore.keys[i].publicKey
        /\ \A i \in (1..Len(keyStore.keys)) \ convertible :
              keyStore.keys[i].kid \notin JwksKids(jwksCache)

\* two keys in the store, one of them with a public key that does not convert, and a
\* document that holds the other one
C21_Witness ==
    /\ Len(keyStore.keys) = 2
    /\ \E i \in 1..2 : ~Parses(keyStore.keys[i].publicKey)
    /\ Len(jwksCache) = 1
    /\ ret.op # "startup"

\* the token passes every check of jwt.verify under some public key now in the store
VerifiesUnderStore(ks, token, clock) ==
    /\ token.alg = "RS256"
    /\ \E i \in 1..Len(ks.keys) : Parses(ks.keys[i].publicKey) /\ token.sig = ks.keys[i].publicKey
    /\ clock < token.payload.exp
    /\ token.payload.iss = JwtIssuer
    /\ token.payload.aud = JwtAudience

\* C22: validateJWT lets a request through, with the token's claims attached, only if
\* the token's signature verifies under a public key now in the key store and its
\* expiry, issuer and audience checks pass; a request without a cookie and a request
\* whose token fails one of these always get an error response.
C22_OnlyVerifiedTokensPass ==
    /\ validateJWT(keyStore, <<>>, now).status = 401
    /\ \A t \in PresentedTokens \cup held :
          LET r == validateJWT(keyStore, <<t>>, now)
          IN  /\ r.status = 200 => (VerifiesUnderStore(keyStore, t, now) /\ r.user = UserOf(t))
              /\ ~VerifiesUnderStore(keyStore, t, now) => r.status \in {401, 500}

\* a request with a well-signed token was turned away once the token had expired
C22_Witness ==
    /\ ret.op = "validate"
    /\ ret.cookie # <<>>
    /\ ret.result.status = 401
    /\ ret.result.error = "Token expired"
    /\ now >= DefaultExpiryMinutes * 60

\* C24: a login audit write that fails (store not connected, or insert rejected) never
\* aborts a login: the callback that issued a token and set the session cookie ends in
\* TokenIssued with the success redirect, the cookie still set.
C24_AuditFailureKeepsLogin ==
    (/\ resp.handler = "callback"
     /\ resp.issueCalled
     /\ resp.audit \in {"notConnected", "insertError"})
        => /\ resp.outcome = "TokenIssued"
           /\ resp.status = 302
           /\ resp.setAccess # <<>>
           /\ jar.access_token = resp.setAccess

\* a login completed although the insert of its audit record was rejected
C24_Witness ==
    /\ resp.handler = "callback"
    /\ resp.audit = "insertError"
    /\ resp.outcome = "TokenIssued"
    /\ jar.access_token # <<>>

VerifiesUnderKey(token, key, clock) ==
    /\ token.alg = "RS256"
    /\ Parses(key)
    /\ token.sig = key
    /\ clock < token.payload.exp
    /\ token.payload.iss = JwtIssuer
    /\ token.payload.aud = JwtAudience

\* C25: when the token header carries a kid that names a key in the key store, only that
\* key is used: if the token does not verify under it, the request is rejected, also
\* when another key in the store would verify the token.
C25_NamedKeyOnly ==
    \A t \in PresentedTokens \cup held :
        (/\ Truthy(t.kid)
         /\ HasKey(keyStore, t.kid)
         /\ ~VerifiesUnderKey(t, Entry(keyStore, t.kid).publicKey, now))
            => validateJWT(keyStore, <<t>>, now).status = 401

\* a token naming one key of the store and signed by another was turned away although
\* that other key is in the store and verifies it
C25_Witness ==
    /\ ret.op = "validate"
    /\ ret.cookie # <<>>
    /\ ret.result.status = 401
    /\ \E t \in PresentedTokens :
          /\ ret.cookie = <<t>>
          /\ HasKey(keyStore, t.kid)
          /\ ~VerifiesUnderKey(t, Entry(keyStore, t.kid).publicKey, now)
          /\ \E i \in 1..Len(keyStore.keys) :
                VerifiesUnderKey(t, keyStore.keys[i].publicKey, now)

\* the response validateJWT gives for an error of this name
ErrorResponse(errorName) ==
    IF errorName = "TokenExpiredError" THEN [status |-> 401, error |-> "Token expired"]
    ELSE [status |-> 401, error |-> "Invalid token"]

\* C26: for a token without kid, or with a kid that names no key of the store, every
\* public key of the store is tried in the store's order: the request passes when one of
\* them verifies the token, it fails with the error of the last key tried when none
\* does, and it fails with a generic error when the store is empty.
C26_FallbackTriesEveryKey ==
    \A t \in PresentedTokens \cup held :
        (~Truthy(t.kid) \/ ~HasKey(keyStore, t.kid)) =>
            LET r == validateJWT(keyStore, <<t>>, now)
                n == Len(keyStore.keys)
            IN  IF n = 0
                THEN r = [status |-> 500, error |-> "Authentication service misconfigured"]
                ELSE IF \E i \in 1..n : VerifiesUnderKey(t, keyStore.keys[i].publicKey, now)
                THEN r = [status |-> 200, user |-> UserOf(t)]
                ELSE r = ErrorResponse(JwtVerify(t, keyStore.keys[n].publicKey, now))

\* a token without kid was tried against two keys that fail for different reasons, and
\* the answer is the one for the last key
C26_Witness ==
    /\ ret.op = "validate"
    /\ Len(keyStore.keys) = 2
    /\ \E t \in PresentedTokens :
          /\ ret.cookie = <<t>>
          /\ ~Truthy(t.kid)
          /\ JwtVerify(t, keyStore.keys[1].publicKey, now) = "TokenExpiredError"
          /\ JwtVerify(t, keyStore.keys[2].publicKey, now) = "JsonWebTokenError"
          /\ ret.result = [status |-> 401, error |-> "Invalid token"]

\* why the token fails under this key: its signature, its expiry, or its issuer or
\* audience ("none" when it does not fail)
FailureKind(token, key, clock) ==
    IF token.alg # "RS256" \/ ~Parses(key) \/ token.sig # key THEN "InvalidSignature"
    ELSE IF clock >= token.payload.exp THEN "Expired"
    ELSE IF token.payload.iss # JwtIssuer \/ token.payload.aud # JwtAudience
    THEN "ClaimMismatch"
    ELSE "none"

\* C27: an expired token, a badly signed token and a token with the wrong issuer or
\* audience get three different error answers: two tokens that name a key of the store
\* and fail under it for different reasons never get the same answer.
C27_FailureKindsDistinct ==
    \A t1, t2 \in PresentedTokens :
        (/\ HasKey(keyStore, t1.kid) /\ HasKey(keyStore, t2.kid)
         /\ FailureKind(t1, Entry(keyStore, t1.kid).publicKey, now) # "none"
         /\ FailureKind(t2, Entry(keyStore, t2.kid).publicKey, now) # "none"
         /\ FailureKind(t1, Entry(keyStore, t1.kid).publicKey, now)
               # FailureKind(t2, Entry(keyStore, t2.kid).publicKey, now))
            => validateJWT(keyStore, <<t1>>, now) # validateJWT(keyStore, <<t2>>, now)

\* C28: no request sees a stale JWKS cache: whenever a token with header kid K has just
\* been issued, the cached JWKS document served at that moment contains K.
C28_IssuedKidIsPublished ==
    (ret.op = "issue" /\ ret.result.ok) =>
        ret.result.token.kid \in JwksKids(jwksCache)

\* C29: no reader sees a half-updated store: a token is never issued between a
\* rotation's add of the new key and its switch of the active id (after a successful
\* rotation the new key is in the store and is the active one), and every issued token's
\* header kid is the active id and names the key whose private half made the signature.
C29_IssueSeesWholeStore ==
    /\ (ret.op = "rotate" /\ ret.success) =>
          /\ HasKey(keyStore, ret.newActiveKid)
          /\ keyStore.activeKid = ret.newActiveKid
    /\ (ret.op = "issue" /\ ret.result.ok) =>
          /\ ret.result.token.kid = keyStore.activeKid
          /\ HasKey(keyStore, ret.result.token.kid)
          /\ ret.result.token.sig = Entry(keyStore, ret.result.token.kid).privateKey

\* a token issued after a rotation, from a store of two keys with different material
C29_Witness ==
    /\ ret.op = "issue"
    /\ ret.result.ok
    /\ Len(keyStore.keys) = 2
    /\ keyStore.keys[1].privateKey # keyStore.keys[2].privateKey
    /\ ret.result.token.kid = keyStore.keys[2].kid
    /\ ret.result.token.sig = keyStore.keys[2].privateKey

\* C30: handleCallback passes its gates in a fixed order: a provider-reported error is
\* rejected before the parameter check, a missing code or state before the state check;
\* no token exchange or userinfo call is made before the state matched; the directory
\* lookup is made only after an email was obtained; generateToken is called and the
\* session cookie set only after the directory lookup returned a user.
C30_GatesInOrder ==
    resp.handler = "callback" =>
        /\ Truthy(resp.reqError) =>
              (resp.outcome = "ProviderError" /\ ~resp.passedGate)
        /\ (~Truthy(resp.reqError) /\ (~Truthy(resp.reqCode) \/ ~Present(resp.reqState))) =>
              (resp.outcome = "MissingParameters" /\ ~resp.passedGate)
        /\ resp.passedGate =>
              (/\ ~Truthy(resp.reqError) /\ Truthy(resp.reqCode) /\ Present(resp.reqState)
               /\ resp.reqState = resp.storedState)
        /\ resp.exchangeCalled => resp.passedGate
        /\ resp.userinfoCalled => resp.exchangeCalled
        /\ resp.directoryCalled =>
              (/\ resp.userinfoCalled
               /\ resp.outcome \notin {"TokenExchangeFailed", "IdentityIncomplete"})
        /\ resp.outcome \in {"TokenExchangeFailed", "IdentityIncomplete"} =>
              ~resp.issueCalled
        /\ resp.issueCalled =>
              (/\ resp.directoryCalled
               /\ \/ resp.mock
                  \/ (resp.lookup.code = "none" /\ resp.lookup.status = 200
                      /\ resp.lookup.hasUser))
        /\ resp.setAccess # <<>> => resp.issueCalled
        /\ resp.outcome = "TokenIssued" => resp.setAccess # <<>>

\* a callback that went through every gate and ended with the session cookie set
C30_Witness ==
    /\ resp.handler = "callback"
    /\ resp.passedGate
    /\ resp.exchangeCalled /\ resp.userinfoCalled /\ resp.directoryCalled
    /\ resp.issueCalled
    /\ resp.outcome = "TokenIssued"
    /\ jar.access_token = resp.setAccess

\* C31: every handleCallback reaches a terminal state and sends a response, also when the
\* provider's token endpoint, the provider's userinfo endpoint or the directory never
\* answers: each outbound call is bounded by a timeout whose expiry ends the attempt with
\* an error.
C31_CallbackAlwaysResponds ==
    resp.handler = "callback" =>
        /\ resp.status # 0
        /\ resp.outcome # "NoResponse"

\* C32: removeKey(id) changes nothing, and raises nothing, when id is the active key or
\* names no entry, and otherwise deletes exactly that entry; setActiveKid(id) raises and
\* keeps the previous active id when id names no entry, and otherwise changes only the
\* active id.
C32_RemoveAndSetActiveErrorCases ==
    [][/\ ret'.op = "remove" =>
             IF HasKey(keyStore, ret'.kid) /\ ret'.kid # keyStore.activeKid
             THEN keyStore' = [keyStore EXCEPT !.keys = DeleteKey(keyStore.keys, ret'.kid)]
             ELSE keyStore' = keyStore
       /\ ret'.op = "setActive" =>
             IF HasKey(keyStore, ret'.kid)
             THEN ~ret'.thrown /\ keyStore' = [keyStore EXCEPT !.activeKid = ret'.kid]
             ELSE ret'.thrown /\ keyStore' = keyStore
      ]_vars

\* C33: addKeyWithoutActivating(id, privateKey, publicKey) stages a key without cutover:
\* for every id, the id of the active key included, the active key id and the private
\* key that signs new tokens are the same after a successful call as before it, every
\* other entry is unchanged, and id is published in the JWKS document.
C33_AddStagesWithoutCutover ==
    [][(ret'.op = "add" /\ ret'.success) =>
          /\ keyStore'.activeKid = keyStore.activeKid
          /\ getActivePrivateKeyOf(keyStore') = getActivePrivateKeyOf(keyStore)
          /\ \A i \in 1..Len(keyStore.keys) :
                keyStore.keys[i].kid # ret'.kid =>
                    \E j \in 1..Len(keyStore'.keys) : keyStore'.keys[j] = keyStore.keys[i]
          /\ ret'.kid \in JwksKids(jwksCache')
      ]_vars

\* C34: in indexed-environment mode initialize loads slot N+1 only if slots 1..N are all
\* present (private and public key both set): whatever the key store holds after
\* initialize comes from a slot before the first missing one, and nothing from a slot
\* after a gap is loaded.
C34_NoSlotAfterGap ==
    (ret.op = "initialize" /\ ret.env.NODE_ENV = "production") =>
        \A i \in 1..Len(keyStore.keys) :
            \E n \in DOMAIN ret.env.slots :
                /\ \A m \in 1..n : SlotPresent(ret.env, m)
                /\ keyStore.keys[i] = loadKeyFromEnv(ret.env, n)

C34_Witness ==
    /\ ret.op = "initialize"
    /\ ret.env.NODE_ENV = "production"
    /\ SlotPresent(ret.env, 1)
    /\ ~SlotPresent(ret.env, 2)
    /\ SlotPresent(ret.env, 3)
    /\ loadKeyFromEnv(ret.env, 3) # loadKeyFromEnv(ret.env, 1)
    /\ keyStore.keys = <<loadKeyFromEnv(ret.env, 1)>>

\* C35: after initialize in indexed-environment mode every slot that was scanned and
\* parsed is retrievable from the key store under its own key id, and the number of
\* entries equals the number of loaded slots, also for slots that got the positional
\* fallback id.
C35_EverySlotRetrievable ==
    (ret.op = "initialize" /\ ret.env.NODE_ENV = "production") =>
        /\ Len(keyStore.keys) = Cardinality(LoadedSlots(ret.env))
        /\ \A n \in LoadedSlots(ret.env) :
              LET kp == loadKeyFromEnv(ret.env, n)
              IN  /\ HasKey(keyStore, kp.kid)
                  /\ Entry(keyStore, kp.kid) = kp

\* C36: after initialize with at least one key loaded, the active key id is the
\* configured JWT_ACTIVE_KID when that names a loaded key, and otherwise the
\* lexicographically last loaded key id.
C36_ActiveKidAfterInitialize ==
    (ret.op = "initialize" /\ Len(keyStore.keys) > 0) =>
        IF HasKey(keyStore, ret.env.JWT_ACTIVE_KID)
        THEN keyStore.activeKid = ret.env.JWT_ACTIVE_KID
        ELSE /\ HasKey(keyStore, keyStore.activeKid)
             /\ \A k \in KidSet(keyStore) : KidRank(k) <= KidRank(keyStore.activeKid)

\* C37: the Coordinator endpoint runs a handler only for the actions get-jwks and
\* perform-logout: for every other action string, names of built-in object properties
\* included, no handler is invoked and the answer is 400 with the unknown-action error.
C37_OnlyTwoActionsDispatch ==
    (/\ ret.op = "coordinator"
     /\ ret.body = "json"
     /\ Truthy(ret.action)
     /\ ret.action \notin {"get-jwks", "perform-logout"}) =>
        /\ ret.invoked = Absent
        /\ ret.status = 400
        /\ "error" \in ret.response.defined => ret.response.error = "Unknown action"

\* C40: at startup and after any sequence of completed rotate, addKeyWithoutActivating
\* and purge operations, the JWKS the Coordinator get-jwks action returns equals the
\* cached document served at /.well-known/jwks.json: the same kids in the same order
\* with the same key fields.
C40_CoordinatorJwksEqualsCache ==
    (ret.op = "coordinator" /\ ret.invoked = "handleGetJwks") =>
        /\ "jwks" \in ret.response.defined => ret.response.jwks = <<[keys |-> jwksCache]>>
        /\ "keys" \in ret.response.defined => ret.response.keys = <<jwksCache>>

C40_Witness ==
    /\ ret.op = "coordinator"
    /\ ret.invoked = "handleGetJwks"
    /\ "jwks" \in ret.response.defined
    /\ Len(jwksCache) >= 2
    /\ Len(keyStore.keys) > Len(jwksCache)
    /\ ret.response.jwks = <<[keys |-> jwksCache]>>

\* C38: a response that signals failure never carries a session cookie: the
\* access_token cookie is set only on the response that redirects to the success
\* destination, also when an exception is raised after the token was issued.
C38_CookieOnlyOnSuccess ==
    (resp.handler = "callback" /\ resp.setAccess # <<>>) =>
        /\ resp.status = 302
        /\ resp.outcome = "TokenIssued"

\* C39: handleCallback for a provider name outside {google, github, linkedin} never
\* issues a token and never sets the access_token cookie, whatever code, state and
\* stored cookies the request carries.
C39_UnknownProviderGetsNoToken ==
    [][(resp'.handler = "callback" /\ resp'.provider \notin Providers) =>
          /\ ~resp'.issueCalled
          /\ resp'.setAccess = <<>>
          /\ resp'.outcome # "TokenIssued"
          /\ jar'.access_token = jar.access_token
      ]_vars

\* a callback for a name that is no provider came with a code and a state cookie equal
\* to its state, and was refused after the state check
C39_Witness ==
    /\ resp.handler = "callback"
    /\ resp.provider = "other"
    /\ resp.reqCode = "code"
    /\ resp.passedGate
    /\ resp.status = 500
    /\ resp.setAccess = <<>>

====
